---- MODULE Spec2Model ----
(***************************************************************************)
(* The playbook engine of lib/ansible/playbook/__init__.py (class          *)
(* PlayBook) as a state machine: run() schedules the plays by tag, then    *)
(* runs them one at a time; _run_play matches hosts, gathers facts, builds *)
(* the serial batches and, per batch, runs the tasks and then the notified *)
(* handlers.  The inventory, the runner (executor), the stats aggregator   *)
(* and the Play/Task classes live outside this file of the repository and  *)
(* are modelled from their documented contracts.                           *)
(***************************************************************************)
EXTENDS Integers, Sequences, FiniteSets, TLC

\* ------------------------------------------------------------ bounds
\* Number of hosts of the inventory (hosts are 1..NumHosts, in inventory order).
NumHosts == 3
\* Largest positive value of play.serial that is tried.
MaxSerial == 2

Hosts == 1..NumHosts
Inventory == [i \in 1..NumHosts |-> i]

\* ------------------------------------------------------------ sequences
Range(s) == {s[i] : i \in DOMAIN s}

Count(s, x) == Cardinality({i \in DOMAIN s : s[i] = x})

RECURSIVE Flatten(_)
Flatten(ss) == IF ss = <<>> THEN <<>> ELSE Head(ss) \o Flatten(Tail(ss))

\* python dict.update: the keys of e overwrite those of d
DictUpdate(d, e) ==
  [x \in DOMAIN d \cup DOMAIN e |-> IF x \in DOMAIN e THEN e[x] ELSE d[x]]

EmptyDict == [x \in {} |-> "none"]

\* ------------------------------------------------------------ playbook data
\* Task(...) builds the fields of a Task that the engine reads.  Every task
\* carries the universal tag "all" next to its own tags.
Task(tags, notify, register, ignore_errors, async_seconds, async_poll_interval) ==
  [tags |-> {"all"} \cup tags, notify |-> notify, register |-> register,
   ignore_errors |-> ignore_errors, async_seconds |-> async_seconds,
   async_poll_interval |-> async_poll_interval]

\* A handler is a task with a name; the handlers tried here notify nobody.
Handler(name) ==
  [name |-> name, tags |-> {"all"}, notify |-> <<>>, register |-> "",
   ignore_errors |-> FALSE, async_seconds |-> 0, async_poll_interval |-> 0]

Play(hosts, serial, gather_facts, tasks, handlers) ==
  [hosts |-> hosts, serial |-> serial, gather_facts |-> gather_facts,
   tasks |-> tasks, handlers |-> handlers]

TNotifyA   == Task({"t1"}, <<"restart">>, "", FALSE, 0, 0)
TNotifyBA  == Task({"t1"}, <<"$reload", "restart">>, "k", FALSE, 0, 0)
TOther     == Task({"t2"}, <<>>, "", TRUE, 0, 0)
TPlain     == Task({}, <<>>, "", FALSE, 0, 0)
TUndefined == Task({"t2"}, <<"restart", "missing">>, "", FALSE, 0, 0)
TPolled    == Task({"t1"}, <<"restart">>, "", FALSE, 5, 1)
TForget    == Task({"t2"}, <<>>, "", FALSE, 5, 0)
TPolledIgnore == Task({"t1"}, <<>>, "", TRUE, 5, 1)

TwoHandlers == <<Handler("restart"), Handler("reload")>>

TwoHandlersSwapped == <<Handler("reload"), Handler("restart")>>

\* utils.template on the names used here: "$reload" is a templated spelling
\* of "reload", every other name expands to itself.
Template(name) == IF name = "$reload" THEN "reload" ELSE name

\* The playbooks tried; s is the positive serial value of the serial plays.
\* The plays with notifying tasks and handlers address "web", the plays that
\* address "all" (whose size is a bound) are short.
PbNotify(s) ==
  << Play("web", 0, "none", <<TNotifyA, TNotifyBA>>, TwoHandlersSwapped),
     Play("all", s, "true", <<TPlain>>, <<>>) >>

PbSerialNotify(s) ==
  << Play("web", s, "none", <<TNotifyBA, TOther, TNotifyA>>, TwoHandlers),
     Play("all", 0, "false", <<TPlain>>, <<>>) >>

PbAsync(s) ==
  << Play("nomatch", 0, "true", <<TPlain>>, <<>>),
     Play("web", s, "true", <<TPolled, TForget>>, TwoHandlers) >>

PbUndefined(s) ==
  << Play("web", s, "none", <<TOther, TUndefined>>, TwoHandlers),
     Play("all", 0, "none", <<>>, <<>>) >>

PbThree(s) ==
  << Play("all", 0, "true", <<>>, <<>>),
     Play("all", s, "none", <<TPlain>>, <<>>),
     Play("web", 0, "none", <<TOther>>, <<>>) >>

PbFactsOnly(s) == << Play("web", 0, "true", <<>>, <<>>) >>

PbPolledIgnore(s) == << Play("web", s, "false", <<TPolledIgnore, TPlain>>, <<>>) >>

PbRegather(s) ==
  << Play("all", 0, "true", <<>>, <<>>),
     Play("web", s, "true", <<TPlain>>, <<>>) >>

Playbooks(s) ==
  { PbNotify(s), PbSerialNotify(s), PbAsync(s), PbUndefined(s), PbThree(s), PbFactsOnly(s),
    PbPolledIgnore(s), PbRegather(s) }

OnlyTagsChoices == { {"all"}, {"t1"}, {"t1", "tx"}, {"ty", "tx", "all"} }

ExtraVarsChoices == { EmptyDict, [x \in {"k"} |-> "extra"] }

\* ------------------------------------------------------------ playbook loader
\* _load_playbook_from_file.  A vars block is absent, a mapping (dict) or a
\* list of mappings; an entry of a playbook file is a play, or an include
\* directive: the file to include, a with_items list (or none), a vars
\* block, and the key=value tokens in order.
AbsentVars == [kind |-> "absent", dict |-> EmptyDict, list |-> <<>>]

DictVars(d) == [kind |-> "dict", dict |-> d, list |-> <<>>]

ListVars(l) == [kind |-> "list", dict |-> EmptyDict, list |-> l]

Var(name, value) == [x \in {name} |-> value]

PlayEntry(name, vars) ==
  [include |-> "", name |-> name, vars |-> vars, with_items |-> <<>>, looped |-> FALSE,
   tokens |-> <<>>, scope |-> EmptyDict, from |-> ""]

IncludeEntry(path, looped, with_items, vars, tokens) ==
  [include |-> path, name |-> "", vars |-> vars, with_items |-> with_items,
   looped |-> looped, tokens |-> tokens, scope |-> EmptyDict, from |-> ""]

\* the values a with_items list is made of, and its largest length
Items == {"i1", "i2"}

MaxItems == 2

ItemLists == UNION {[1..n -> Items] : n \in 0..MaxItems}

\* the forms tried for the vars block of an include directive ...
IncludeVarsChoices ==
  { AbsentVars, DictVars(Var("x", "incx")),
    ListVars(<<Var("x", "incx"), Var("y", "incy")>>) }

\* ... for its key=value tokens ...
TokensChoices == { <<>>, << <<"y", "$item">> >>, << <<"x", "v">>, <<"z", "$x">> >> }

\* ... and for the vars block of the first play of the included file
PlayVarsChoices == { AbsentVars, DictVars(Var("y", "own")), ListVars(<<Var("y", "own")>>) }

\* what the loader is given: the include directive of top.yml, the form of
\* the included play's vars, and whether top.yml includes site.yml directly
\* or through mid.yml
LoadInputs ==
  [looped : BOOLEAN, with_items : ItemLists, inc_vars : IncludeVarsChoices,
   tokens : TokensChoices, play_vars : PlayVarsChoices, nested : BOOLEAN]

\* utils.parse_yaml_from_file on the files tried
FileEntries(path, in) ==
  CASE path = "top.yml" ->
         << IncludeEntry(IF in.nested THEN "mid.yml" ELSE "site.yml", in.looped,
                         in.with_items, in.inc_vars, in.tokens),
            PlayEntry("local", DictVars(Var("y", "local"))) >>
    [] path = "mid.yml" ->
         << IncludeEntry("site.yml", FALSE, <<>>, AbsentVars, << <<"w", "$item">> >>) >>
    [] OTHER ->
         << PlayEntry("p1", in.play_vars), PlayEntry("p2", AbsentVars) >>

\* utils.template on the values used here: "$item" and "$x" stand for the
\* variables item and x, when these are defined
TemplateVars(v, vars) ==
  LET n == CASE v = "$item" -> "item" [] v = "$x" -> "x" [] OTHER -> ""
  IN IF n # "" /\ n \in DOMAIN vars THEN vars[n] ELSE v

\* the order in which a dict of the variables used here is iterated
KeyOrder == <<"item", "w", "x", "y", "z">>

RECURSIVE UpdateAll(_, _)
\* for v in play['vars']: incvars.update(v)
UpdateAll(d, list) ==
  IF list = <<>> THEN d ELSE UpdateAll(DictUpdate(d, Head(list)), Tail(list))

RECURSIVE ApplyTokens(_, _)
\* for t in tokens[1:]: incvars[k] = utils.template(basedir, v, incvars)
ApplyTokens(incvars, tokens) ==
  IF tokens = <<>> THEN incvars
  ELSE ApplyTokens(DictUpdate(incvars, Var(tokens[1][1], TemplateVars(tokens[1][2], incvars))),
                   Tail(tokens))

\* lines 163-173: the variable scope of one inclusion pass
IncVars(vars, item, e) ==
  LET a == DictUpdate(vars, Var("item", item))
      b == IF e.vars.kind = "dict" THEN DictUpdate(a, e.vars.dict)
           ELSE IF e.vars.kind = "list" THEN UpdateAll(a, e.vars.list)
           ELSE a
  IN ApplyTokens(b, e.tokens)

\* lines 176-182: the pass's variables go into the vars of a returned play.
\* A missing vars becomes {}, a dict is updated, a list is extended by
\* dict(k=v) for every variable: a mapping from the name 'k' to the value.
MergeVars(block, incvars) ==
  IF block.kind = "list"
  THEN ListVars(block.list \o
         [i \in 1..Len(SelectSeq(KeyOrder, LAMBDA k : k \in DOMAIN incvars)) |->
            Var("k", incvars[SelectSeq(KeyOrder, LAMBDA k : k \in DOMAIN incvars)[i]])])
  ELSE DictVars(DictUpdate(block.dict, incvars))

\* lines 148-160: the items the include is repeated for
IncludeItems(e) == IF e.looped THEN e.with_items ELSE <<"">>

RECURSIVE LoadPlaybookFromFile(_, _, _)
RECURSIVE ExpandEntries(_, _, _)
RECURSIVE IncludePasses(_, _, _, _)

\* lines 162-184, for the items left: each pass loads the included file with
\* its scope and merges the scope into the plays returned.  scope and from
\* note, on each play, the scope and the item of the pass that returned it.
IncludePasses(e, items, vars, in) ==
  IF items = <<>> THEN <<>>
  ELSE LET incvars == IncVars(vars, Head(items), e)
           plays == LoadPlaybookFromFile(e.include, incvars, in)
       IN [i \in 1..Len(plays) |->
             [plays[i] EXCEPT !.vars = MergeVars(plays[i].vars, incvars),
                              !.scope = incvars, !.from = Head(items)]]
          \o IncludePasses(e, Tail(items), vars, in)

\* the loop over the entries of a file, lines 142-187
ExpandEntries(entries, vars, in) ==
  IF entries = <<>> THEN <<>>
  ELSE (IF Head(entries).include # ""
        THEN IncludePasses(Head(entries), IncludeItems(Head(entries)), vars, in)
        ELSE <<Head(entries)>>)
       \o ExpandEntries(Tail(entries), vars, in)

LoadPlaybookFromFile(path, vars, in) == ExpandEntries(FileEntries(path, in), vars, in)

\* ------------------------------------------------------------ inventory
\* Hosts matched by a pattern when nothing is restricted.
PatternHosts(pattern) ==
  CASE pattern = "all" -> Hosts
    [] pattern = "web" -> {h \in Hosts : h <= 2}
    [] OTHER -> {}

\* The restriction stack: a frame is [kind, hosts].  A "restrict" frame
\* replaces the active set by its hosts, an "also" frame intersects its
\* hosts with the active set below it.
RECURSIVE Active(_)
Active(stack) ==
  IF stack = <<>> THEN Hosts
  ELSE LET top == stack[Len(stack)]
       IN IF top.kind = "restrict" THEN Range(top.hosts)
          ELSE Range(top.hosts) \cap Active(SubSeq(stack, 1, Len(stack) - 1))

list_hosts(stack, pattern) ==
  SelectSeq(Inventory, LAMBDA h : h \in PatternHosts(pattern) /\ h \in Active(stack))

restrict_to(stack, hosts) == Append(stack, [kind |-> "restrict", hosts |-> hosts])

also_restrict_to(stack, hosts) == Append(stack, [kind |-> "also", hosts |-> hosts])

lift_restriction(stack) ==
  IF stack = <<>> THEN stack ELSE SubSeq(stack, 1, Len(stack) - 1)

lift_also_restriction(stack) ==
  IF stack = <<>> THEN stack ELSE SubSeq(stack, 1, Len(stack) - 1)

\* ------------------------------------------------------------ executor results
\* A result set maps each host the executor was run on to its outcome:
\* "dark" is unreachable, every other outcome is a contacted result.
Contacted(res) == {h \in DOMAIN res : res[h] # "dark"}

Dark(res) == {h \in DOMAIN res : res[h] = "dark"}

\* the contacted hosts whose result has 'changed'
Changed(res) == {h \in Contacted(res) : res[h] \in {"changed", "changedfailed"}}

\* 'failed' in value, or rc != 0
IsFailed(o) == o \in {"failed", "changedfailed", "timedout"}

IsChanged(o) == o \in {"changed", "changedfailed"}

IsSkipped(o) == o = "skipped"

\* result.get('ansible_facts', {}): facts says whether this call's successful
\* results carry the fact k.  Only a fact named like an extra variable is
\* tracked (FactsChoices).
ResultFacts(o, facts) ==
  IF facts /\ o \in {"ok", "changed"} THEN [x \in {"k"} |-> "fact"] ELSE EmptyDict

FactsChoices(extra) == IF "k" \in DOMAIN extra THEN BOOLEAN ELSE {FALSE}

SyncOutcomes == {"ok", "changed", "failed", "changedfailed", "skipped", "dark"}

\* poller.wait: a polled async job finishes, or is still listed as started
\* when polling ends
PolledOutcomes == {"ok", "changed", "failed", "dark", "started"}

\* poller.hosts_to_poll after the wait: the hosts still outstanding
HostsToPoll(task, raw) ==
  IF task.async_seconds # 0 /\ task.async_poll_interval > 0
  THEN {h \in DOMAIN raw : raw[h] = "started"} ELSE {}

\* variant of AsyncPoll: the outstanding hosts get no result
AsyncPollForgets(task, raw) ==
  [h \in DOMAIN raw \ HostsToPoll(task, raw) |-> raw[h]]

\* _async_poll, lines 243-246: every host still outstanding gets the
\* contacted result { failed: 1, rc: None, msg: 'timed out' }
AsyncPoll(task, raw) ==
  [h \in DOMAIN raw |-> IF h \in HostsToPoll(task, raw) THEN "timedout" ELSE raw[h]]

\* fire and forget: the launch acknowledgement is the result
ForgetOutcomes == {"ok", "dark"}

HandlerOutcomes == {"ok", "failed", "dark"}

SetupOutcomes == {"ok", "failed", "dark"}

\* ------------------------------------------------------------ stats
\* Stats.compute: the hosts with a failure or a dark count.
compute(st, res, ignore_errors) ==
  [failures |-> st.failures \cup {h \in Contacted(res) : ~ignore_errors /\ IsFailed(res[h])},
   dark |-> st.dark \cup Dark(res)]

\* ------------------------------------------------------------ tags (Play.compare_tags, run)
AllTags(play) == UNION {play.tasks[i].tags : i \in DOMAIN play.tasks}

\* compare_tags: the tags of the play's tasks that are requested, and the others
matched_tags(play, tags) == AllTags(play) \cap tags

unmatched_tags(play, tags) == AllTags(play) \ tags

matched_tags_all(pb, tags) == UNION {matched_tags(pb[i], tags) : i \in DOMAIN pb}

unmatched_tags_all(pb, tags) == UNION {unmatched_tags(pb[i], tags) : i \in DOMAIN pb}

\* run(): the plays that are scheduled, as indices into the playbook, in order
ScheduledPlays(pb, tags) ==
  SelectSeq([i \in 1..Len(pb) |-> i],
            LAMBDA i : matched_tags(pb[i], tags) # {} \/ Len(pb[i].tasks) = 0)

\* variant of UnknownTags: the matched tags are not counted as seen
UnknownTagsNoMatched(pb, tags) == (tags \ unmatched_tags_all(pb, tags)) \ {"all"}

\* run(): unknown_tags, after discard('all')
UnknownTags(pb, tags) ==
  (tags \ (matched_tags_all(pb, tags) \cup unmatched_tags_all(pb, tags))) \ {"all"}

\* variant of ShouldRun: the tags are not looked at
ShouldRunAlways(task, tags) == TRUE

\* _run_play: should_run, the requested tags against the task's tags
ShouldRun(task, tags) == \E x \in tags : \E y \in task.tags : x = y

\* variant of TasksDone: the loop is left after the first task
TasksDoneEarly(t, play) == t > 1 \/ t > Len(play.tasks)

\* _run_play, line 431: the loop over the play's tasks is over
TasksDone(t, play) == t > Len(play.tasks)

\* ------------------------------------------------------------ hosts
\* variant of list_available_hosts: dark hosts are not left out
ListAvailableNoDark(stack, st, pattern) ==
  SelectSeq(list_hosts(stack, pattern), LAMBDA h : h \notin st.failures)

\* _list_available_hosts: hosts that haven't failed and aren't dark
list_available_hosts(stack, st, pattern) ==
  SelectSeq(list_hosts(stack, pattern),
            LAMBDA h : h \notin st.failures /\ h \notin st.dark)

\* variant of TaskHosts: the hosts are not filtered by Stats
TaskHostsStale(stack, st, play) ==
  list_hosts(restrict_to(stack, list_hosts(stack, "all")), play.hosts)

\* _run_task_internal: the hosts the runner is run on.  The available hosts
\* (default pattern) become a restriction, under which the runner resolves
\* the play's pattern.
TaskHosts(stack, st, play) ==
  LET hosts == list_available_hosts(stack, st, "all")
  IN list_hosts(restrict_to(stack, hosts), play.hosts)

\* the outcomes the runner (and the poller) can report for a task; for a
\* handler, and for a task that notifies nobody (where a change is read by
\* nothing), only the outcomes that differ in what the engine does with them
Outcomes(task, is_handler) ==
  IF is_handler THEN HandlerOutcomes
  ELSE IF task.async_seconds = 0
       THEN IF task.notify = <<>> THEN SyncOutcomes \ {"changed", "changedfailed"}
            ELSE SyncOutcomes
  ELSE IF task.async_poll_interval > 0 THEN PolledOutcomes
  ELSE ForgetOutcomes

\* _run_task_internal, lines 279-286: the stats after the call.  An async
\* task's launch results (started, or dark) are computed right away.
InternalStats(st, task, res) ==
  IF task.async_seconds = 0 THEN st
  ELSE compute(st, [h \in DOMAIN res |-> IF res[h] = "dark" THEN "dark" ELSE "ok"], FALSE)

\* _run_task_internal, lines 279-286: the result sets given to Stats.compute
\* during the call, in order, each with the hosts it holds, and the result
\* set returned: the runner's, the launch results, or the poller's
InternalComputed(task, res) ==
  IF task.async_seconds = 0 THEN <<>>
  ELSE <<[results |-> "run_async", hosts |-> DOMAIN res]>>

InternalReturned(task) ==
  IF task.async_seconds = 0 THEN "run"
  ELSE IF task.async_poll_interval > 0 THEN "poll" ELSE "run_async"

\* ------------------------------------------------------------ serial batches
RECURSIVE PopBatch(_, _)
\* the inner for loop: at most n hosts popped off the end of all_hosts
PopBatch(hosts, n) ==
  IF n = 0 \/ hosts = <<>> THEN <<>>
  ELSE <<hosts[Len(hosts)]>> \o PopBatch(SubSeq(hosts, 1, Len(hosts) - 1), n - 1)

RECURSIVE SerialBatches(_, _)
\* the while loop
SerialBatches(hosts, serial) ==
  IF hosts = <<>> THEN <<>>
  ELSE LET play_hosts == PopBatch(hosts, serial)
       IN <<play_hosts>> \o
          SerialBatches(SubSeq(hosts, 1, Len(hosts) - Len(play_hosts)), serial)

\* variant of SerializedBatch: a last batch that is not full is not built
SerializedBatchDropLast(hosts, serial) ==
  IF serial <= 0 THEN <<hosts>>
  ELSE SerialBatches(SubSeq(hosts, 1, Len(hosts) - (Len(hosts) % serial)), serial)

\* _run_play, lines 415-425
SerializedBatch(hosts, serial) ==
  IF serial <= 0 THEN <<hosts>> ELSE SerialBatches(hosts, serial)

\* ------------------------------------------------------------ fact cache
\* _run_task, lines 318-329, for one contacted host
FoldResult(entry, o, facts, extra, register) ==
  IF IsSkipped(o) THEN entry
  ELSE LET a == DictUpdate(entry, facts)
           b == DictUpdate(a, extra)
       IN IF register # "" THEN DictUpdate(b, [x \in {register} |-> "result"]) ELSE b

\* _do_setup_step, lines 390-393, for one contacted host
FoldSetup(entry, facts) ==
  DictUpdate(DictUpdate(entry, [x \in {"module_setup"} |-> "true"]), facts)

\* ------------------------------------------------------------ notify
\* variant of FlagHandler: a name that no handler has is let through
FlagHandlerLenient(nb, handlers, handler_name, host) ==
  [nb |-> [i \in DOMAIN nb |->
             IF handler_name = Template(handlers[i].name)
             THEN Append(nb[i], host) ELSE nb[i]],
   found |-> TRUE]

\* _flag_handler: every handler with that name gets the host appended
FlagHandler(nb, handlers, handler_name, host) ==
  [nb |-> [i \in DOMAIN nb |->
             IF handler_name = Template(handlers[i].name)
             THEN Append(nb[i], host) ELSE nb[i]],
   found |-> \E i \in DOMAIN handlers : handler_name = Template(handlers[i].name)]

RECURSIVE FlagAll(_, _, _)
\* the notify loops of _run_task over (host, name), until a name is not found
FlagAll(nb, handlers, pairs) ==
  IF pairs = <<>> THEN [nb |-> nb, raised |-> FALSE]
  ELSE LET f == FlagHandler(nb, handlers, Template(pairs[1][2]), pairs[1][1])
       IN IF f.found THEN FlagAll(f.nb, handlers, Tail(pairs))
          ELSE [nb |-> f.nb, raised |-> TRUE]

\* the (host, name) pairs in the order the loops visit them
NotifyPairs(task, res) ==
  LET hl == SelectSeq(Inventory, LAMBDA h : h \in Contacted(res) /\ IsChanged(res[h]))
  IN Flatten([i \in 1..Len(hl) |-> [j \in 1..Len(task.notify) |-> <<hl[i], task.notify[j]>>]])

\* _run_task after the runner returned res: stats, cache, notified_by, whether
\* _flag_handler raised, the value returned, and the result sets that were
\* given to Stats.compute (line 315 after those of _run_task_internal)
RunTask(st, ch, nb, extra, play, task, res, facts) ==
  LET st1 == InternalStats(st, task, res)
      none == Contacted(res) = {} /\ Dark(res) = {}
      st2 == compute(st1, res, task.ignore_errors)
      ch2 == [h \in Hosts |->
                IF h \in Contacted(res)
                THEN FoldResult(ch[h], res[h], ResultFacts(res[h], facts), extra, task.register)
                ELSE ch[h]]
      fl == FlagAll(nb, play.handlers, NotifyPairs(task, res))
  IN [stats |-> st2, cache |-> ch2, nb |-> fl.nb, raised |-> fl.raised,
      hosts_remaining |-> ~none,
      computed |-> Append(InternalComputed(task, res),
                          [results |-> InternalReturned(task), hosts |-> DOMAIN res])]

\* ------------------------------------------------------------ state
VARIABLES
  playbook,         \* self.playbook: the plays, in order
  only_tags,        \* self.only_tags
  extra_vars,       \* self.extra_vars
  pc,               \* where run() is
  plays,            \* run(): the scheduled plays (indices into playbook)
  pi,               \* how many scheduled plays have been started
  playResult,       \* what the last _run_play returned: "none", "true", "false"
  error,            \* the AnsibleError raised, "" when none
  unknown,          \* the unknown tags of the unknown-tag error
  callback,         \* the last event given to self.callbacks
  stats,            \* self.stats: hosts with failures, dark hosts
  cache,            \* SETUP_CACHE: host -> facts
  restrictions,     \* the inventory's restriction stack
  all_hosts,        \* _run_play: the available hosts after the setup step
  serialized_batch, \* _run_play: the batches
  bi,               \* the batch being processed (0 before the first)
  ti,               \* the task being processed
  hi,               \* the handler being processed
  notified_by,      \* the current play's handlers' notified_by lists
  last,             \* the last call of the executor: kind, play, batch, idx, the
                    \* hosts it ran on, the notified_by list of a handler, the
                    \* hosts whose result indicates a change, the hosts still
                    \* outstanding when the polling of an async task ended, the
                    \* result sets given to Stats.compute
  batchTasks,       \* the tasks given to the executor in this batch, in order
  batchHandlers,    \* the handlers given to the executor in this batch, in order
  load_in,          \* _load_playbook_from_file: the files it is given
  load_pos,         \* how many entries of the top file have been expanded
  accumulated_plays \* the plays accumulated so far

vars == <<playbook, only_tags, extra_vars, pc, plays, pi, playResult, error, unknown,
          callback, stats, cache, restrictions, all_hosts, serialized_batch, bi, ti, hi,
          notified_by, last, batchTasks, batchHandlers, load_in, load_pos,
          accumulated_plays>>

loader == <<load_in, load_pos, accumulated_plays>>

config == <<playbook, only_tags, extra_vars, loader>>

batchVars == <<all_hosts, serialized_batch, bi, ti, hi>>

NoCall == [kind |-> "none", play |-> 0, batch |-> 0, idx |-> 0, hosts |-> <<>>,
           notified |-> <<>>, changed |-> {}, outstanding |-> {}, computed |-> <<>>]

EmptyStats == [failures |-> {}, dark |-> {}]

EmptyCache == [h \in Hosts |-> EmptyDict]

CurPlay == playbook[plays[pi]]

\* the loader's input while the engine runs: the playbook is loaded already
NoLoad ==
  [looped |-> FALSE, with_items |-> <<>>, inc_vars |-> AbsentVars, tokens |-> <<>>,
   play_vars |-> AbsentVars, nested |-> FALSE]

Init ==
  /\ \E s \in 1..MaxSerial : playbook \in Playbooks(s)
  /\ load_in = NoLoad
  /\ load_pos = 0
  /\ accumulated_plays = <<>>
  /\ only_tags \in OnlyTagsChoices
  /\ extra_vars \in ExtraVarsChoices
  /\ pc = "start"
  /\ plays = <<>>
  /\ pi = 0
  /\ playResult = "none"
  /\ error = ""
  /\ unknown = {}
  /\ callback = ""
  /\ stats = EmptyStats
  /\ cache = EmptyCache
  /\ restrictions = <<>>
  /\ all_hosts = <<>>
  /\ serialized_batch = <<>>
  /\ bi = 0
  /\ ti = 0
  /\ hi = 0
  /\ notified_by = <<>>
  /\ last = NoCall
  /\ batchTasks = <<>>
  /\ batchHandlers = <<>>

\* run(), lines 193-222: schedule the plays, raise on unknown tags
Run ==
  /\ pc = "start"
  /\ plays' = ScheduledPlays(playbook, only_tags)
  /\ callback' = "on_start"
  /\ LET unknown_tags == UnknownTags(playbook, only_tags)
     IN IF unknown_tags # {}
        THEN /\ pc' = "error"
             /\ error' = "unknown_tags"
             /\ unknown' = unknown_tags
        ELSE /\ pc' = "play_loop"
             /\ UNCHANGED <<error, unknown>>
  /\ UNCHANGED <<config, pi, playResult, stats, cache, restrictions, batchVars,
                 notified_by, last, batchTasks, batchHandlers>>

\* variant of LoopBreaks: the loop goes on after a failed play
LoopBreaksNever(result) == FALSE

\* run(), lines 225-226: the loop is left when a play returned failure
LoopBreaks(result) == result = "false"

\* variant of NoHostsMatched: the check is missing
NoHostsMatchedNever(stack, play) == FALSE

\* _run_play, line 403: no host matches the play's pattern
NoHostsMatched(stack, play) == list_hosts(stack, play.hosts) = <<>>

\* run(), lines 224-225, and _run_play, lines 401-405: the next play starts
PlayStart ==
  /\ pc = "play_loop"
  /\ ~LoopBreaks(playResult)
  /\ pi < Len(plays)
  /\ pi' = pi + 1
  /\ LET play == playbook[plays[pi + 1]]
     IN /\ notified_by' = [i \in DOMAIN play.handlers |-> <<>>]
        /\ IF NoHostsMatched(restrictions, play)
           THEN /\ callback' = "on_no_hosts_matched"
                /\ playResult' = "true"
                /\ pc' = "play_loop"
           ELSE /\ callback' = "on_play_start"
                /\ playResult' = "none"
                /\ pc' = "setup"
  /\ all_hosts' = <<>>
  /\ serialized_batch' = <<>>
  /\ bi' = 0
  /\ ti' = 0
  /\ hi' = 0
  /\ batchTasks' = <<>>
  /\ batchHandlers' = <<>>
  /\ UNCHANGED <<config, plays, error, unknown, stats, cache, restrictions, last>>

\* run(), lines 224-232: the loop is over, or broken by a failed play
Finish ==
  /\ pc = "play_loop"
  /\ LoopBreaks(playResult) \/ pi = Len(plays)
  /\ pc' = "done"
  /\ UNCHANGED <<config, plays, pi, playResult, error, unknown, callback, stats, cache,
                 restrictions, batchVars, notified_by, last, batchTasks, batchHandlers>>

\* variant of SetupHostList: with gather_facts unset the sentinel is not looked at
SetupHostListRegather(play, stack, st, ch) ==
  LET host_list == list_available_hosts(stack, st, play.hosts)
  IN IF play.gather_facts = "false" THEN [skip |-> TRUE, hosts |-> <<>>]
     ELSE [skip |-> play.gather_facts = "none" /\ host_list = <<>>, hosts |-> host_list]

\* _do_setup_step: the hosts to gather facts from, or "skip" when it returns early
SetupHostList(play, stack, st, ch) ==
  LET host_list == list_available_hosts(stack, st, play.hosts)
      missing == SelectSeq(host_list, LAMBDA h : "module_setup" \notin DOMAIN ch[h])
  IN IF play.gather_facts = "false" THEN [skip |-> TRUE, hosts |-> <<>>]
     ELSE IF play.gather_facts = "none"
          THEN [skip |-> missing = <<>>, hosts |-> missing]
          ELSE [skip |-> FALSE, hosts |-> host_list]

\* _run_play, line 408: _do_setup_step
DoSetupStep ==
  /\ pc = "setup"
  /\ pc' = "batching"
  /\ LET play == CurPlay
         hl == SetupHostList(play, restrictions, stats, cache)
     IN IF hl.skip
        THEN UNCHANGED <<callback, stats, cache, last>>
        ELSE LET d == list_hosts(restrict_to(restrictions, hl.hosts), play.hosts)
             IN \E res \in [Range(d) -> SetupOutcomes] : \E facts \in FactsChoices(extra_vars) :
                  /\ callback' = "on_setup"
                  /\ stats' = compute(stats, res, FALSE)
                  /\ cache' = [h \in Hosts |->
                                 IF h \in Contacted(res)
                                 THEN FoldSetup(cache[h], ResultFacts(res[h], facts))
                                 ELSE cache[h]]
                  /\ last' = [kind |-> "setup", play |-> plays[pi], batch |-> 0,
                              idx |-> 0, hosts |-> d, notified |-> <<>>, changed |-> {},
                              outstanding |-> {},
                              computed |-> <<[results |-> "run", hosts |-> DOMAIN res]>>]
  /\ UNCHANGED <<config, plays, pi, playResult, error, unknown, restrictions, batchVars,
                 notified_by, batchTasks, batchHandlers>>

\* _run_play, lines 412-425: the available hosts are split into batches
MakeBatches ==
  /\ pc = "batching"
  /\ pc' = "batch_loop"
  /\ all_hosts' = list_available_hosts(restrictions, stats, CurPlay.hosts)
  /\ serialized_batch' = SerializedBatch(all_hosts', CurPlay.serial)
  /\ bi' = 0
  /\ UNCHANGED <<config, plays, pi, playResult, error, unknown, callback, stats, cache,
                 restrictions, ti, hi, notified_by, last, batchTasks, batchHandlers>>

\* _run_play, lines 427-431: the next batch starts
BatchStart ==
  /\ pc = "batch_loop"
  /\ bi < Len(serialized_batch)
  /\ bi' = bi + 1
  /\ restrictions' = also_restrict_to(restrictions, serialized_batch[bi + 1])
  /\ ti' = 1
  /\ hi' = 1
  /\ pc' = IF TasksDone(1, CurPlay) THEN "handlers" ELSE "tasks"
  /\ batchTasks' = <<>>
  /\ batchHandlers' = <<>>
  /\ UNCHANGED <<config, plays, pi, playResult, error, unknown, callback, stats, cache,
                 all_hosts, serialized_batch, notified_by, last>>

\* _run_play, line 464: every batch is done
PlayDone ==
  /\ pc = "batch_loop"
  /\ bi = Len(serialized_batch)
  /\ playResult' = "true"
  /\ pc' = "play_loop"
  /\ UNCHANGED <<config, plays, pi, error, unknown, callback, stats, cache, restrictions,
                 batchVars, notified_by, last, batchTasks, batchHandlers>>

\* variant of AfterTask: the availability check looks at the whole play,
\* as if the batch's restriction were not there
AfterTaskPlayWide(st, cb) ==
  IF list_available_hosts(<<>>, st, CurPlay.hosts) = <<>>
  THEN /\ callback' = "on_no_hosts_remaining"
       /\ playResult' = "false"
       /\ pc' = "play_loop"
       /\ ti' = ti
  ELSE /\ callback' = cb
       /\ playResult' = playResult
       /\ ti' = ti + 1
       /\ pc' = IF TasksDone(ti + 1, CurPlay) THEN "handlers" ELSE "tasks"

\* _run_play, lines 447-452, after a task that did not end the play: the
\* play is aborted when no host of the pattern is available any more
AfterTask(st, cb) ==
  IF list_available_hosts(restrictions, st, CurPlay.hosts) = <<>>
  THEN /\ callback' = "on_no_hosts_remaining"
       /\ playResult' = "false"
       /\ pc' = "play_loop"
       /\ ti' = ti
  ELSE /\ callback' = cb
       /\ playResult' = playResult
       /\ ti' = ti + 1
       /\ pc' = IF TasksDone(ti + 1, CurPlay) THEN "handlers" ELSE "tasks"

\* _run_play, lines 431-452: one task of the batch
TaskStep ==
  /\ pc = "tasks"
  /\ LET play == CurPlay
         task == play.tasks[ti]
     IN IF ShouldRun(task, only_tags)
        THEN LET d == TaskHosts(restrictions, stats, play)
             IN \E raw \in [Range(d) -> Outcomes(task, FALSE)] : \E facts \in FactsChoices(extra_vars) :
                  LET res == AsyncPoll(task, raw)
                      r == RunTask(stats, cache, notified_by, extra_vars, play, task, res, facts)
                      cb == IF r.nb # notified_by THEN "on_notify" ELSE "on_task_start"
                  IN /\ stats' = r.stats
                     /\ cache' = r.cache
                     /\ notified_by' = r.nb
                     /\ last' = [kind |-> "task", play |-> plays[pi], batch |-> bi,
                                 idx |-> ti, hosts |-> d, notified |-> <<>>,
                                 changed |-> Changed(res),
                                 outstanding |-> HostsToPoll(task, raw),
                                 computed |-> r.computed]
                     /\ batchTasks' = Append(batchTasks, ti)
                     /\ IF r.raised
                        THEN /\ pc' = "error"
                             /\ error' = "handler_undefined"
                             /\ callback' = cb
                             /\ UNCHANGED <<playResult, ti>>
                        ELSE /\ error' = error
                             /\ IF ~r.hosts_remaining
                                THEN /\ playResult' = "false"
                                     /\ pc' = "play_loop"
                                     /\ callback' = cb
                                     /\ ti' = ti
                                ELSE AfterTask(r.stats, cb)
        ELSE /\ AfterTask(stats, callback)
             /\ UNCHANGED <<stats, cache, notified_by, last, batchTasks, error>>
  /\ UNCHANGED <<config, plays, pi, unknown, restrictions, all_hosts, serialized_batch,
                 bi, hi, batchHandlers>>

\* variant of HandlerHosts: the handler is run on the notified_by list as it
\* is, one run per entry
HandlerHostsRaw(stack, st, play, nb) ==
  SelectSeq(nb, LAMBDA h : h \in Range(TaskHosts(restrict_to(stack, nb), st, play)))

\* variant of HandlerHosts: the handler is run like a task of the batch,
\* without the restriction to notified_by
HandlerHostsUnrestricted(stack, st, play, nb) == TaskHosts(stack, st, play)

\* _run_play, lines 457-458: the hosts a notified handler is run on
HandlerHosts(stack, st, play, nb) == TaskHosts(restrict_to(stack, nb), st, play)

\* _run_play, line 460
ClearNotified(nb, h) == [nb EXCEPT ![h] = <<>>]

\* _run_play, lines 455-460: one handler of the batch
HandlerStep ==
  /\ pc = "handlers"
  /\ hi <= Len(CurPlay.handlers)
  /\ LET play == CurPlay
         handler == play.handlers[hi]
     IN IF Len(notified_by[hi]) > 0
        THEN LET d == HandlerHosts(restrictions, stats, play, notified_by[hi])
             IN \E raw \in [Range(d) -> Outcomes(handler, TRUE)] : \E facts \in {FALSE} :
                  LET res == AsyncPoll(handler, raw)
                      r == RunTask(stats, cache, notified_by, extra_vars, play, handler, res, facts)
                  IN /\ stats' = r.stats
                     /\ cache' = r.cache
                     /\ callback' = "on_task_start"
                     /\ last' = [kind |-> "handler", play |-> plays[pi], batch |-> bi,
                                 idx |-> hi, hosts |-> d, notified |-> notified_by[hi],
                                 changed |-> Changed(res),
                                 outstanding |-> HostsToPoll(handler, raw),
                                 computed |-> r.computed]
                     /\ batchHandlers' = Append(batchHandlers, hi)
                     /\ IF r.raised
                        THEN /\ pc' = "error"
                             /\ error' = "handler_undefined"
                             /\ restrictions' = restrict_to(restrictions, notified_by[hi])
                             /\ notified_by' = r.nb
                             /\ hi' = hi
                        ELSE /\ pc' = pc
                             /\ error' = error
                             /\ restrictions' =
                                  lift_restriction(restrict_to(restrictions, notified_by[hi]))
                             /\ notified_by' = ClearNotified(r.nb, hi)
                             /\ hi' = hi + 1
        ELSE /\ hi' = hi + 1
             /\ UNCHANGED <<pc, error, callback, stats, cache, restrictions, notified_by,
                            last, batchHandlers>>
  /\ UNCHANGED <<config, plays, pi, playResult, unknown, all_hosts, serialized_batch,
                 bi, ti, batchTasks>>

\* _run_play, line 462: the batch is over
BatchEnd ==
  /\ pc = "handlers"
  /\ hi > Len(CurPlay.handlers)
  /\ restrictions' = lift_also_restriction(restrictions)
  /\ pc' = "batch_loop"
  /\ UNCHANGED <<config, plays, pi, playResult, error, unknown, callback, stats, cache,
                 all_hosts, serialized_batch, bi, ti, hi, notified_by, last, batchTasks,
                 batchHandlers>>

Next ==
  \/ Run
  \/ PlayStart
  \/ Finish
  \/ DoSetupStep
  \/ MakeBatches
  \/ BatchStart
  \/ PlayDone
  \/ TaskStep
  \/ HandlerStep
  \/ BatchEnd

Spec == Init /\ [][Next]_vars

\* ------------------------------------------------------------ loading
\* __init__, line 124: the playbook file is loaded before anything runs
InitLoad ==
  /\ load_in \in LoadInputs
  /\ load_pos = 0
  /\ accumulated_plays = <<>>
  /\ playbook = <<>>
  /\ only_tags = {"all"}
  /\ extra_vars = EmptyDict
  /\ pc = "load"
  /\ plays = <<>>
  /\ pi = 0
  /\ playResult = "none"
  /\ error = ""
  /\ unknown = {}
  /\ callback = ""
  /\ stats = EmptyStats
  /\ cache = EmptyCache
  /\ restrictions = <<>>
  /\ all_hosts = <<>>
  /\ serialized_batch = <<>>
  /\ bi = 0
  /\ ti = 0
  /\ hi = 0
  /\ notified_by = <<>>
  /\ last = NoCall
  /\ batchTasks = <<>>
  /\ batchHandlers = <<>>

engine == <<playbook, only_tags, extra_vars, plays, pi, playResult, error, unknown,
            callback, stats, cache, restrictions, all_hosts, serialized_batch, bi, ti,
            hi, notified_by, last, batchTasks, batchHandlers>>

\* _load_playbook_from_file, lines 142-187: the next entry of the top file
\* is expanded (the top file is loaded with vars = {})
LoadEntry ==
  /\ pc = "load"
  /\ load_pos < Len(FileEntries("top.yml", load_in))
  /\ load_pos' = load_pos + 1
  /\ accumulated_plays' =
       accumulated_plays \o
         ExpandEntries(<<FileEntries("top.yml", load_in)[load_pos + 1]>>, EmptyDict, load_in)
  /\ UNCHANGED <<pc, load_in, engine>>

\* line 189: the accumulated plays are returned
LoadReturn ==
  /\ pc = "load"
  /\ load_pos = Len(FileEntries("top.yml", load_in))
  /\ pc' = "loaded"
  /\ UNCHANGED <<loader, engine>>

NextLoad ==
  \/ LoadEntry
  \/ LoadReturn

SpecLoad == InitLoad /\ [][NextLoad]_vars

\* ------------------------------------------------------------ properties

\* a step in which the executor is called
Dispatches == last' # last

Unavailable(st) == st.failures \cup st.dark

\* C1: run() runs the scheduled plays one at a time, in playbook order, and
\* is fail-fast: a play starts only when run() is between plays and no play
\* has returned failure, every executor call (setup step, task or handler)
\* belongs to the play that was started last, and none is made once a play
\* has returned failure.
C1_FailFast ==
  [][ /\ (pi' # pi =>
            /\ pc = "play_loop"
            /\ playResult # "false"
            /\ pi' = pi + 1
            /\ (pi > 0 => plays[pi'] > plays[pi]))
      /\ (Dispatches =>
            /\ playResult # "false"
            /\ pi' = pi
            /\ last'.play = plays[pi]
            /\ playResult \in {"none"}) ]_vars

\* C1 witness: a play has failed after the executor was called, the run is
\* over, and a scheduled play was never started.
C1_Witness ==
  /\ pc = "done"
  /\ playResult = "false"
  /\ pi < Len(plays)
  /\ last.kind = "task"
  /\ last.play = plays[pi]

\* C2: the executor is only ever called (setup step, task or handler) for
\* hosts that, when it is called, are neither failed nor dark in Stats.
C2_OnlyAvailableHosts ==
  [][ Dispatches => Range(last'.hosts) \cap Unavailable(stats) = {} ]_vars

\* C2 witness: a task ran on some hosts of its batch while another host of
\* the batch, failed or dark since an earlier step, was left out.
C2_Witness ==
  /\ last.kind = "task"
  /\ last.hosts # <<>>
  /\ bi > 0
  /\ last.batch = bi
  /\ \E h \in Range(serialized_batch[bi]) :
       h \in Unavailable(stats) /\ h \notin Range(last.hosts)

\* the tasks 1..n of the play whose tags intersect only_tags, in order
TagSelected(play, n) ==
  SelectSeq([i \in 1..n |-> i], LAMBDA i : play.tasks[i].tags \cap only_tags # {})

\* C3: in a batch, the tasks given to the executor are, in declaration
\* order, the tasks whose tags intersect only_tags: while the tasks run, the
\* selected ones among those processed so far, and, once the batch's tasks
\* are over (the batch was not aborted), the selected ones among all; a task
\* whose tags are disjoint from only_tags is never given to the executor.
C3_TasksInOrderByTag ==
  (pi > 0 /\ pc \in {"tasks", "handlers", "batch_loop", "play_loop", "done", "error"}) =>
     /\ \A i \in Range(batchTasks) : CurPlay.tasks[i].tags \cap only_tags # {}
     /\ (pc = "tasks" => batchTasks = TagSelected(CurPlay, ti - 1))
     /\ ((pc = "handlers" \/ (pc = "batch_loop" /\ bi > 0)) =>
           batchTasks = TagSelected(CurPlay, Len(CurPlay.tasks)))
     /\ (playResult = "true" /\ bi > 0 =>
           batchTasks = TagSelected(CurPlay, Len(CurPlay.tasks)))
     /\ (\E n \in 0..Len(CurPlay.tasks) : batchTasks = TagSelected(CurPlay, n))

\* C3 witness: a batch whose tasks are over, with a task that was skipped
\* between two that ran.
C3_Witness ==
  /\ pi > 0
  /\ pc = "handlers"
  /\ batchTasks = <<1, 3>>

\* C4: a handler is given to the executor only when every task of the play
\* has been processed for the batch, the handlers of a batch run in
\* declaration order, and an aborted batch runs none.
C4_HandlersAfterTasksInOrder ==
  /\ (batchHandlers # <<>> =>
        /\ pc \in {"handlers", "batch_loop", "play_loop", "done", "error"}
        /\ ti = Len(CurPlay.tasks) + 1
        /\ playResult # "false")
  /\ \A i, j \in DOMAIN batchHandlers : i < j => batchHandlers[i] < batchHandlers[j]
  /\ (pc = "handlers" => \A i \in Range(batchHandlers) : i < hi)

\* C4 witness: both handlers ran, first to last, in a batch whose first task
\* names the second handler first.
C4_Witness ==
  /\ pi > 0
  /\ batchHandlers = <<1, 2>>
  /\ Len(CurPlay.tasks) > 0
  /\ Len(CurPlay.tasks[1].notify) = 2
  /\ Template(CurPlay.tasks[1].notify[1]) = CurPlay.handlers[2].name
  /\ Template(CurPlay.tasks[1].notify[2]) = CurPlay.handlers[1].name

\* the state is one in which the handler loop is at a handler of the batch
AtHandler == pc = "handlers" /\ hi <= Len(CurPlay.handlers)

\* C5 (as stated): a host that notified a handler two or more times in a
\* batch gets the handler exactly once when the handler loop reaches it,
\* and notified_by is empty afterwards.
C5_ExactlyOnce ==
  [][ AtHandler =>
        \A h \in Hosts :
          Count(notified_by[hi], h) >= 2 =>
            /\ Dispatches
            /\ Count(last'.hosts, h) = 1
            /\ notified_by'[hi] = <<>> ]_vars

\* C5 (amended): a host that notified a handler two or more times in a batch
\* gets the handler at most once in that batch: exactly once when the
\* handler loop reaches the handler with the host neither failed nor dark,
\* not at all when the host has failed or gone dark by then; the handler
\* loop passes each handler once per batch, and notified_by is empty after
\* the handler has run.
C5_OnceIfAvailable ==
  [][ /\ AtHandler =>
           \A h \in Hosts :
             Count(notified_by[hi], h) >= 2 =>
               /\ Dispatches
               /\ last'.kind = "handler"
               /\ last'.idx = hi
               /\ last'.batch = bi
               /\ Count(last'.hosts, h) = (IF h \in Unavailable(stats) THEN 0 ELSE 1)
               /\ notified_by'[hi] = <<>>
               /\ hi' = hi + 1
      /\ (pi' = pi /\ bi' = bi => hi' >= hi) ]_vars

\* C5 witness: a handler has just run, once, on a host that was twice in its
\* notified_by, which is empty now.
C5_Witness ==
  /\ pc = "handlers"
  /\ last.kind = "handler"
  /\ last.batch = bi
  /\ last.play = plays[pi]
  /\ notified_by[last.idx] = <<>>
  /\ \E h \in Hosts : Count(last.notified, h) >= 2 /\ Count(last.hosts, h) = 1

\* C6: for serial = k > 0 and N available hosts, the batches built are
\* ceil(N/k) many, each of size k except possibly the last one built, and
\* every available host is in exactly one batch.
C6_SerialPartition ==
  (pi > 0 /\ pc \in {"batch_loop", "tasks", "handlers"} /\ CurPlay.serial > 0) =>
     LET k == CurPlay.serial
         n == Len(all_hosts)
         m == Len(serialized_batch)
         flat == Flatten(serialized_batch)
     IN /\ m = (n + k - 1) \div k
        /\ \A i \in 1..m : i < m => Len(serialized_batch[i]) = k
        /\ m > 0 => Len(serialized_batch[m]) \in 1..k
        /\ Len(flat) = n
        /\ \A h \in Hosts : Count(flat, h) = Count(all_hosts, h)
        /\ \A h \in Hosts : Count(all_hosts, h) <= 1
        /\ Range(all_hosts) = PatternHosts(CurPlay.hosts) \ Unavailable(stats)
             \/ bi > 0

\* C6 witness: three available hosts in batches of two: a full batch and a
\* last batch of one.
C6_Witness ==
  /\ pi > 0
  /\ pc = "batch_loop"
  /\ CurPlay.serial = 2
  /\ Len(all_hosts) = 3
  /\ Len(serialized_batch) = 2
  /\ Len(serialized_batch[2]) = 1

\* C7: every key of extra_vars that a host's cache entry holds maps to the
\* extra variable's value.
C7_ExtraVarsWin ==
  \A h \in Hosts :
    \A key \in DOMAIN extra_vars \cap DOMAIN cache[h] : cache[h][key] = extra_vars[key]

\* C8: starting a play whose pattern matches no host returns success right
\* away with the no-hosts-matched notice: no executor call, Fact Cache, Stats
\* and restriction stack unchanged, and run() is back in its loop, from
\* where the next play starts.
C8_NoHostsMatchedSkips ==
  [][ (pi' = pi + 1 /\ PatternHosts(playbook[plays[pi + 1]].hosts) = {}) =>
        /\ callback' = "on_no_hosts_matched"
        /\ playResult' = "true"
        /\ pc' = "play_loop"
        /\ ~Dispatches
        /\ cache' = cache
        /\ stats' = stats
        /\ restrictions' = restrictions ]_vars

\* C8 witness: the first play matched no host and a later play's task ran.
C8_Witness ==
  /\ pi = 2
  /\ plays[1] = 1
  /\ PatternHosts(playbook[1].hosts) = {}
  /\ last.kind = "task"
  /\ last.play = plays[2]

NeverSeenTags ==
  (only_tags \ UNION {UNION {playbook[i].tasks[j].tags : j \in DOMAIN playbook[i].tasks} :
                        i \in DOMAIN playbook}) \ {"all"}

\* C10: run() raises the unknown-tag error exactly when some requested tag
\* other than "all" is carried by no task of any play; the error names
\* exactly those tags, and when it is raised no play has started, the
\* executor was never called, and Fact Cache, Stats and the restriction
\* stack are as they were.
C10_UnknownTagsAbortFirst ==
  pc # "start" =>
    /\ (error = "unknown_tags") <=> (NeverSeenTags # {})
    /\ error = "unknown_tags" =>
         /\ pc = "error"
         /\ unknown = NeverSeenTags
         /\ pi = 0
         /\ last = NoCall
         /\ cache = EmptyCache
         /\ stats = EmptyStats
         /\ restrictions = <<>>
    /\ error # "unknown_tags" => unknown = {}

\* C10 witness: the error was raised for two unknown tags requested
\* together with "all".
C10_Witness ==
  /\ pc = "error"
  /\ error = "unknown_tags"
  /\ "all" \in only_tags
  /\ unknown = {"tx", "ty"}

\* the notify names of a task that, expanded, are the expanded name of no
\* handler of the play
UndefinedNames(play, task) ==
  {task.notify[j] : j \in {j \in DOMAIN task.notify :
      \A i \in DOMAIN play.handlers :
        Template(task.notify[j]) # Template(play.handlers[i].name)}}

\* C11 (as stated): whenever a task that declares a notify name without a
\* handler is given to the executor on some hosts, the run aborts with the
\* handler-not-defined error.
C11_UndefinedAlwaysFatal ==
  [][ (pc = "tasks" /\ Dispatches /\ last'.hosts # <<>>
         /\ UndefinedNames(CurPlay, CurPlay.tasks[ti]) # {}) =>
        (pc' = "error" /\ error' = "handler_undefined") ]_vars

\* C11 (amended): a task or handler run aborts the run with the
\* handler-not-defined error exactly when it declares a notify name without
\* a handler and some contacted host's result indicates a change; once the
\* error is raised nothing happens any more: no later task, handler or play
\* is given to the executor.
C11_UndefinedFatalOnChange ==
  [][ /\ error # "handler_undefined"
      /\ (pc = "tasks" /\ Dispatches) =>
           ((pc' = "error" /\ error' = "handler_undefined") <=>
              (last'.changed # {} /\ UndefinedNames(CurPlay, CurPlay.tasks[ti]) # {}))
      /\ (pc = "handlers" /\ Dispatches) =>
           ((pc' = "error" /\ error' = "handler_undefined") <=>
              (last'.changed # {} /\ UndefinedNames(CurPlay, CurPlay.handlers[hi]) # {}))
      /\ (error' = "handler_undefined" => Dispatches /\ pc' = "error") ]_vars

\* C11 witness: the error was raised by a task on a host that changed, with
\* a handler flagged before it and a scheduled play never started.
C11_Witness ==
  /\ pc = "error"
  /\ error = "handler_undefined"
  /\ last.kind = "task"
  /\ last.changed # {}
  /\ "missing" \in UndefinedNames(CurPlay, CurPlay.tasks[last.idx])
  /\ \E i \in DOMAIN notified_by : notified_by[i] # <<>>
  /\ pi < Len(plays)

\* C12 (as stated): every host still outstanding when the polling of an
\* async task ends is recorded as failed in Stats.
C12_TimedOutRecordedFailed ==
  [][ (pc = "tasks" /\ Dispatches) => last'.outstanding \subseteq stats'.failures ]_vars

\* C12 (amended): hosts are outstanding only for a task with async_seconds
\* and async_poll_interval above 0; each such host gets a contacted result
\* (it is not dark, and the extra variables are folded into its cache entry,
\* with the registered result) that fails it; unless the task ignores
\* errors the host is failed in Stats from then on and no later executor
\* call includes it, and if the task ignores errors Stats does not record
\* the failure.
C12_TimedOutIsFailure ==
  [][ /\ (pc = "tasks" /\ Dispatches) =>
           LET task == CurPlay.tasks[ti]
           IN /\ (last'.outstanding # {} =>
                    task.async_seconds > 0 /\ task.async_poll_interval > 0)
              /\ \A h \in last'.outstanding :
                    /\ h \in Range(last'.hosts)
                    /\ h \notin stats'.dark
                    /\ DOMAIN extra_vars \subseteq DOMAIN cache'[h]
                    /\ (task.register # "" => task.register \in DOMAIN cache'[h])
                    /\ (h \in stats'.failures <=> ~task.ignore_errors)
      /\ (pc = "handlers" /\ Dispatches => last'.outstanding = {})
      /\ stats.failures \subseteq stats'.failures
      /\ (Dispatches => Range(last'.hosts) \cap stats.failures = {}) ]_vars

\* C12 witness: a polled task has just timed out on one host, which is now
\* failed, while the other host of the batch goes on to the next task.
C12_Witness ==
  /\ pc = "tasks"
  /\ last.kind = "task"
  /\ last.idx = ti - 1
  /\ Len(last.hosts) = 2
  /\ Cardinality(last.outstanding) = 1
  /\ last.outstanding \subseteq stats.failures
  /\ DOMAIN extra_vars # {}

\* C13: whenever _run_play has returned (run() is between plays or past its
\* loop), the restriction stack is what it was when the play started: empty,
\* as every play starts with an empty stack.
C13_NoFrameLeaks ==
  (pi > 0 /\ pc \in {"play_loop", "done"}) => restrictions = <<>>

\* the host's Fact Cache entry has the sentinel
HasSentinel(ch, h) == "module_setup" \in DOMAIN ch[h]

\* C14: a setup step of a play with gather_facts unset is run on exactly
\* the available hosts of the play's pattern whose cache entry lacks the
\* sentinel; every host contacted (not dark) by a setup step has the
\* sentinel afterwards; and the sentinel is never taken away.  So a host
\* contacted by a setup step is in no later setup step of a play with
\* gather_facts unset.
C14_NoRegather ==
  [][ /\ (pc = "setup" /\ Dispatches /\ CurPlay.gather_facts = "none") =>
           Range(last'.hosts) =
             {h \in PatternHosts(CurPlay.hosts) \ Unavailable(stats) : ~HasSentinel(cache, h)}
      /\ (pc = "setup" /\ Dispatches) =>
           /\ last'.kind = "setup"
           /\ \A h \in Range(last'.hosts) \ stats'.dark : HasSentinel(cache', h)
      /\ (pc = "setup" /\ ~Dispatches /\ CurPlay.gather_facts = "none") =>
           {h \in PatternHosts(CurPlay.hosts) \ Unavailable(stats) : ~HasSentinel(cache, h)} = {}
      /\ \A h \in Hosts : HasSentinel(cache, h) => HasSentinel(cache', h) ]_vars

\* C14 witness: the second of two plays with gather_facts unset has just
\* gathered facts from host 3 only, the hosts 1 and 2, contacted by the first
\* play's setup step, being available still.
C14_Witness ==
  /\ pi = 2
  /\ playbook[plays[1]].gather_facts = "none"
  /\ playbook[plays[2]].gather_facts = "none"
  /\ last.kind = "setup"
  /\ last.play = plays[2]
  /\ last.hosts = <<3>>
  /\ PatternHosts(CurPlay.hosts) = Hosts
  /\ {1, 2} \cap Unavailable(stats) = {}
  /\ HasSentinel(cache, 1) /\ HasSentinel(cache, 2)

\* the vars block holds the variable under its own name with that value
Carries(block, name, value) ==
  \/ block.kind = "dict" /\ name \in DOMAIN block.dict /\ block.dict[name] = value
  \/ block.kind = "list" /\ \E i \in DOMAIN block.list : block.list[i] = Var(name, value)

\* the plays that came out of the include directive of the top file
Included == SelectSeq(accumulated_plays, LAMBDA p : p.name # "local")

\* C15: once the top file's include is expanded, the included file's plays
\* are there once per item (once, for an include without a loop), in item
\* order, and every one of them carries in its vars each variable of the
\* scope of the pass that returned it, under the variable's name with the
\* pass's value, whether its vars is a mapping or a list.
C15_IncludePassesVarsDown ==
  load_pos >= 1 =>
    LET items == IF load_in.looped THEN load_in.with_items ELSE <<"">>
    IN /\ Len(Included) = 2 * Len(items)
       /\ \A i \in DOMAIN items :
            /\ Included[2 * i - 1].name = "p1" /\ Included[2 * i].name = "p2"
            /\ Included[2 * i - 1].from = items[i] /\ Included[2 * i].from = items[i]
       /\ \A i \in DOMAIN Included :
            /\ Included[i].scope["item"] = Included[i].from
            /\ \A name \in DOMAIN Included[i].scope :
                 Carries(Included[i].vars, name, Included[i].scope[name])

\* C16: for serial > 0 the batches, concatenated in processing order, are
\* the available-host list in its order: the first batch holds the first
\* hosts of the list, in list order.
C16_BatchesInListOrder ==
  (pi > 0 /\ pc \in {"batch_loop", "tasks", "handlers"} /\ CurPlay.serial > 0) =>
     Flatten(serialized_batch) = all_hosts

\* C17: when the play's pattern matches a host and no host is available
\* once the setup step is over (all_hosts is empty), the play does not
\* return failure.
C17_ExhaustionAfterSetupBenign ==
  (/\ pi > 0
   /\ pc \in {"batch_loop", "tasks", "handlers", "play_loop", "done"}
   /\ PatternHosts(CurPlay.hosts) # {}
   /\ all_hosts = <<>>) => playResult # "false"

\* C18 (as stated): a handler with a non-empty notified_by is run on
\* exactly the hosts of notified_by, the hosts that have failed or gone dark
\* since they notified included.
C18_HandlerOnAllNotified ==
  [][ (AtHandler /\ notified_by[hi] # <<>>) =>
        (Dispatches /\ Range(last'.hosts) = Range(notified_by[hi])) ]_vars

\* C18 (amended): when the handler loop reaches a handler with a non-empty
\* notified_by, the handler is given to the executor for exactly the hosts
\* of notified_by that are neither failed nor dark at that moment: no host
\* outside notified_by gets it, and a notifying host that has failed or
\* gone dark since does not get it either; a handler nobody notified is not
\* run.
C18_HandlerOnAvailableNotified ==
  [][ AtHandler =>
        IF notified_by[hi] # <<>>
        THEN /\ Dispatches
             /\ last'.kind = "handler"
             /\ last'.idx = hi
             /\ Range(last'.hosts) = Range(notified_by[hi]) \ Unavailable(stats)
        ELSE ~Dispatches ]_vars

\* C18 witness: a handler has run on a host that notified it, and not on
\* another host of its notified_by, which had failed or gone dark meanwhile.
C18_Witness ==
  /\ last.kind = "handler"
  /\ last.batch = bi
  /\ last.hosts # <<>>
  /\ Range(last.notified) \ Range(last.hosts) # {}
  /\ bi > 0

\* C19: the executor is never called by a setup step for an empty list of
\* hosts.
C19_SetupNeverOnNoHosts ==
  last.kind = "setup" => last.hosts # <<>>

\* C20: in one execution of a task or handler (and in one setup step) no
\* result set is given to Stats.compute more than once.
C20_ComputedOnce ==
  \A i, j \in DOMAIN last.computed :
    last.computed[i].results = last.computed[j].results => i = j

\* the hosts of the batches after the one being processed
LaterBatchHosts ==
  Range(Flatten(SubSeq(serialized_batch, bi + 1, Len(serialized_batch))))

\* C21: with serial > 0, after a task of a batch (run or skipped by its
\* tags) that did not raise, if every host of that batch is failed or dark,
\* _run_play returns failure at once, whether or not hosts of later batches
\* are available; and once the play has returned failure no further batch
\* is started and the executor is not called again.
C21_BatchScopedCheck ==
  [][ /\ (pc = "tasks" /\ pc' # "error" /\ CurPlay.serial > 0
            /\ Range(serialized_batch[bi]) \subseteq Unavailable(stats')) =>
           /\ playResult' = "false"
           /\ pc' = "play_loop"
           /\ callback' = "on_no_hosts_remaining" \/ (Dispatches /\ last'.hosts = <<>>)
      /\ (playResult = "false" => bi' = bi /\ pi' = pi /\ ~Dispatches) ]_vars

\* C21 witness: the run is over after a play with serial > 0 returned
\* failure at a batch whose hosts are all unavailable, with a later batch,
\* never started, that holds an available host.
C21_Witness ==
  /\ pc = "done"
  /\ playResult = "false"
  /\ CurPlay.serial > 0
  /\ bi > 0
  /\ bi < Len(serialized_batch)
  /\ serialized_batch[bi] # <<>>
  /\ Range(serialized_batch[bi]) \subseteq Unavailable(stats)
  /\ LaterBatchHosts \ Unavailable(stats) # {}
  /\ last.kind = "task"
  /\ last.batch = bi

====
